---- MODULE Spec2Model ----
(***************************************************************************)
(* The secret-message decoders of infonotes-test.                          *)
(*                                                                         *)
(*   plain-text dialect: decodeSecretMessage                               *)
(*       (src/infornotes-modern-functional.js)                             *)
(*   row-text dialect:   renderFromUrl -> getHtml -> getTableRows ->       *)
(*       extractDataFromRows -> buildAndRenderGrid (src/unnamed/part_000;  *)
(*       the class-based and the class-free copy have the same logic)      *)
(*                                                                         *)
(* A JavaScript string is a sequence of one-character strings, so that     *)
(* split, trim, the regular expressions, parseInt, String() and join are   *)
(* computed character by character.  A fixed text of the program (a log    *)
(* line, the text of an error message) is one element of such a sequence.  *)
(***************************************************************************)
EXTENDS Integers, Sequences, FiniteSets, TLC

VARIABLES
    mode,        \* which function was called: "plain" decodeSecretMessage,
                 \* "row" renderFromUrl, "grid" buildAndRenderGrid, "line"
                 \* parseCharacters
    pc,          \* position of the running invocation
    url,         \* the kind of argument the entry point was given
    attempt,     \* fetchWithRetry: the loop counter
    fetchCalls,  \* number of fetch() calls made so far
    content,     \* plain-text: the text fetchWithRetry returned
    characters,  \* plain-text: the records parseCharacters returned
    bounds,      \* plain-text: the reduce over the records
    rows,        \* row-text: textContent of the rows getTableRows returned
    coords,      \* row-text: extractDataFromRows' coords
    chars,       \* row-text: extractDataFromRows' chars
    grid,        \* the grid being painted / printed
    rowIdx,      \* index of the next grid row to print
    out,         \* console.log lines, in order
    errlog,      \* console.warn / console.error lines, in order
    err          \* the error the invocation rejected with, or NoError

vars == <<mode, pc, url, attempt, fetchCalls, content, characters, bounds,
          rows, coords, chars, grid, rowIdx, out, errlog, err>>

---------------------------------------------------------------------------
(* Bounds of the model *)

\* plain-text: at most this many lines in the fetched text
MaxLines == 3
\* row-text: at most this many <tr> elements in the document (header included)
MaxTrs == 3
\* buildAndRenderGrid on its own: at most this many coords
MaxRecs == 2
\* single-line texts for parseCharacters: at most this many characters
MaxLineLen == 6

---------------------------------------------------------------------------
(* Strings *)

WS == {" ", "\t", "\r", "\n"}

Digits == <<"0", "1", "2", "3", "4", "5", "6", "7", "8", "9">>

Digit == {Digits[i] : i \in 1..10}

DigitVal(c) == (CHOOSE i \in 1..10 : Digits[i] = c) - 1

BoundedSeq(S, n) == UNION {[1..k -> S] : k \in 0..n}

Min2(a, b) == IF a <= b THEN a ELSE b

Max2(a, b) == IF a >= b THEN a ELSE b

\* Number.parseInt(s, 10) of a non-empty run of digits
RECURSIVE ParseInt(_)
ParseInt(ds) ==
    IF ds = <<>> THEN 0
    ELSE 10 * ParseInt(SubSeq(ds, 1, Len(ds) - 1)) + DigitVal(ds[Len(ds)])

\* The first index >= p whose character is not in class C (Len(s)+1 if none):
\* where a greedy C* starting at p stops.
RECURSIVE RunEnd(_, _, _)
RunEnd(s, p, C) ==
    IF p > Len(s) \/ s[p] \notin C THEN p ELSE RunEnd(s, p + 1, C)

\* As RunEnd, for the complement class (\S, \D).
RECURSIVE RunEndNot(_, _, _)
RunEndNot(s, p, C) ==
    IF p > Len(s) \/ s[p] \in C THEN p ELSE RunEndNot(s, p + 1, C)

\* String.prototype.trim
RECURSIVE TrimLeft(_)
TrimLeft(s) == IF s # <<>> /\ s[1] \in WS THEN TrimLeft(Tail(s)) ELSE s

RECURSIVE TrimRight(_)
TrimRight(s) ==
    IF s # <<>> /\ s[Len(s)] \in WS
    THEN TrimRight(SubSeq(s, 1, Len(s) - 1)) ELSE s

Trim(s) == TrimRight(TrimLeft(s))

\* content.split('\n')
RECURSIVE Split(_)
Split(s) ==
    LET e == RunEndNot(s, 1, {"\n"})
    IN  IF e > Len(s) THEN <<s>>
        ELSE <<SubSeq(s, 1, e - 1)>> \o Split(SubSeq(s, e + 1, Len(s)))

\* The text whose lines are ls: the lines joined by '\n'.
RECURSIVE JoinLines(_)
JoinLines(ls) ==
    IF ls = <<>> THEN <<>>
    ELSE IF Len(ls) = 1 THEN ls[1]
    ELSE ls[1] \o <<"\n">> \o JoinLines(Tail(ls))

\* array.join(sep) of an array of strings
RECURSIVE Join(_, _)
Join(cells, sep) ==
    IF cells = <<>> THEN <<>>
    ELSE IF Len(cells) = 1 THEN cells[1]
    ELSE cells[1] \o sep \o Join(Tail(cells), sep)

---------------------------------------------------------------------------
(* Errors *)

NoError == [name |-> "none", message |-> <<>>, id |-> 0]

\* new Error(message); id tells the error objects of the fetch attempts apart
\* (0 for every other error)
MkError(name, message, id) == [name |-> name, message |-> message, id |-> id]

---------------------------------------------------------------------------
(* decodeSecretMessage: parseCharacters *)

NoMatch == [ok |-> FALSE, char |-> <<>>, x |-> 0, y |-> 0]

\* /(.)\s+(\d+)\s+(\d+)/ tried at position p.  The classes that follow each
\* other are disjoint, so the greedy match is the only one.
Pattern1At(s, p) ==
    LET b == RunEnd(s, p + 1, WS)
        c == RunEnd(s, b, Digit)
        d == RunEnd(s, c, WS)
        e == RunEnd(s, d, Digit)
    IN  IF p <= Len(s) /\ s[p] \notin {"\n", "\r"}
           /\ b > p + 1 /\ c > b /\ d > c /\ e > d
        THEN [ok |-> TRUE, char |-> <<s[p]>>,
              x |-> ParseInt(SubSeq(s, b, c - 1)),
              y |-> ParseInt(SubSeq(s, d, e - 1))]
        ELSE NoMatch

\* /(.),\s*(\d+),\s*(\d+)/ tried at position p
Pattern2At(s, p) ==
    LET b == RunEnd(s, p + 2, WS)
        c == RunEnd(s, b, Digit)
        d == RunEnd(s, c + 1, WS)
        e == RunEnd(s, d, Digit)
    IN  IF p + 1 <= Len(s) /\ s[p] \notin {"\n", "\r"} /\ s[p + 1] = ","
           /\ c > b /\ c <= Len(s) /\ s[c] = "," /\ e > d
        THEN [ok |-> TRUE, char |-> <<s[p]>>,
              x |-> ParseInt(SubSeq(s, b, c - 1)),
              y |-> ParseInt(SubSeq(s, d, e - 1))]
        ELSE NoMatch

\* /(\S+)\s+(\d+)\s+(\d+)/ tried at position p
Pattern3At(s, p) ==
    LET a == RunEndNot(s, p, WS)
        b == RunEnd(s, a, WS)
        c == RunEnd(s, b, Digit)
        d == RunEnd(s, c, WS)
        e == RunEnd(s, d, Digit)
    IN  IF a > p /\ b > a /\ c > b /\ d > c /\ e > d
        THEN [ok |-> TRUE, char |-> SubSeq(s, p, a - 1),
              x |-> ParseInt(SubSeq(s, b, c - 1)),
              y |-> ParseInt(SubSeq(s, d, e - 1))]
        ELSE NoMatch

PatternAt(k, s, p) ==
    CASE k = 1 -> Pattern1At(s, p)
      [] k = 2 -> Pattern2At(s, p)
      [] OTHER -> Pattern3At(s, p)

\* line.match(pattern): the patterns are unanchored, the leftmost match wins
MatchLine(k, s) ==
    LET hits == {p \in 1..Len(s) : PatternAt(k, s, p).ok}
    IN  IF hits = {} THEN NoMatch
        ELSE PatternAt(k, s, CHOOSE p \in hits : \A q \in hits : p <= q)

\* patterns, the most general one first
patternsGeneralFirst == <<3, 2, 1>>

\* the order in which the patterns are tried
patterns == <<1, 2, 3>>

\* the body of the .map over the lines: the first pattern that matches, or null
ParseLine(line) ==
    LET hit == {i \in 1..Len(patterns) : MatchLine(patterns[i], line).ok}
    IN  IF hit = {} THEN NoMatch
        ELSE MatchLine(patterns[CHOOSE i \in hit : \A j \in hit : i <= j], line)

Record(m) == [char |-> m.char, x |-> m.x, y |-> m.y]

\* MapLines without the .filter(Boolean): a line that matches nothing stays,
\* as a record without a character
MapLinesUnfiltered(ls) == [i \in 1..Len(ls) |-> Record(ParseLine(ls[i]))]

\* .map(line => ...) followed by .filter(Boolean): the nulls are dropped
RECURSIVE MapLines(_)
MapLines(ls) ==
    IF ls = <<>> THEN <<>>
    ELSE LET m == ParseLine(ls[1])
         IN  (IF m.ok THEN <<Record(m)>> ELSE <<>>) \o MapLines(Tail(ls))

\* .split('\n').map(line => line.trim()).filter(Boolean)
RECURSIVE TrimmedLines(_)
TrimmedLines(ls) ==
    IF ls = <<>> THEN <<>>
    ELSE LET t == Trim(ls[1])
         IN  (IF t # <<>> THEN <<t>> ELSE <<>>) \o TrimmedLines(Tail(ls))

parseCharacters(text) == MapLines(TrimmedLines(Split(text)))

---------------------------------------------------------------------------
(* decodeSecretMessage: bounds, grid, output *)

\* bounds before line 61 has run
NoBounds ==
    [set |-> FALSE, finite |-> FALSE, minX |-> 0, maxX |-> 0, minY |-> 0, maxY |-> 0]

\* { minX: Infinity, maxX: -Infinity, minY: Infinity, maxY: -Infinity }
InitialBounds ==
    [set |-> TRUE, finite |-> FALSE, minX |-> 0, maxX |-> 0, minY |-> 0, maxY |-> 0]

\* the reducer: Math.min(Infinity, x) = x and Math.max(-Infinity, x) = x
BoundsStep(acc, r) ==
    IF ~acc.finite
    THEN [set |-> TRUE, finite |-> TRUE,
          minX |-> r.x, maxX |-> r.x, minY |-> r.y, maxY |-> r.y]
    ELSE [set |-> TRUE, finite |-> TRUE,
          minX |-> Min2(acc.minX, r.x), maxX |-> Max2(acc.maxX, r.x),
          minY |-> Min2(acc.minY, r.y), maxY |-> Max2(acc.maxY, r.y)]

RECURSIVE Reduce(_, _)
Reduce(acc, recs) ==
    IF recs = <<>> THEN acc ELSE Reduce(BoundsStep(acc, recs[1]), Tail(recs))

computeBounds(recs) == Reduce(InitialBounds, recs)

\* Array.from({ length }) of a length that is -Infinity is empty
PlainHeight(b) == IF b.finite THEN b.maxY - b.minY + 1 ELSE 0

PlainWidth(b) == IF b.finite THEN b.maxX - b.minX + 1 ELSE 0

\* Array.from({ length: h }, () => Array.from({ length: w }, () => ' '))
NewGrid(h, w) == [r \in 1..h |-> [c \in 1..w |-> <<" ">>]]

\* PlainCell that leaves a cell already written alone
PlainCellFirstWins(g, b, r) ==
    IF g[r.y - b.minY + 1][r.x - b.minX + 1] # <<" ">> THEN g
    ELSE [g EXCEPT ![r.y - b.minY + 1][r.x - b.minX + 1] = r.char]

\* grid[y - bounds.minY][x - bounds.minX] = char, indices from 1 here
PlainCell(g, b, r) ==
    [g EXCEPT ![r.y - b.minY + 1][r.x - b.minX + 1] = r.char]

RECURSIVE PlainPaint(_, _, _)
PlainPaint(g, b, recs) ==
    IF recs = <<>> THEN g
    ELSE PlainPaint(PlainCell(g, b, recs[1]), b, Tail(recs))

PlainGrid(recs, b) == PlainPaint(NewGrid(PlainHeight(b), PlainWidth(b)), b, recs)

\* row.join('')
RowLine(row) == Join(row, <<>>)

HeaderLine == <<"Secret Message:">>

---------------------------------------------------------------------------
(* decodeSecretMessage: the pipeline *)

\* fetchWithRetry's default maxRetries
maxRetries == 3

\* what one fetch attempt can fail with: fetch() rejects, or !response.ok
FetchFailures ==
    { [name |-> "TypeError", message |-> <<"fetch failed">>],
      [name |-> "Error", message |-> <<"HTTP ", "5", "0", "0">>] }

\* the lines a fetched text is made of
SampleLines ==
    { <<"A", " ", "0", " ", "0">>,
      <<"B", " ", "1", " ", "0", "\r">>,
      <<"C", ",", "0", ",", "1">>,
      <<"A", "B", " ", "1", " ", "1">>,
      <<" ", "B", ",", " ", "0", ",", " ", "0", " ">>,
      <<>>,
      <<"A", " ", "1">>,
      <<"A", ",", "1", ",", "2", " ", "0", " ", "1">> }

\* catch (error) { console.error(`Decoding failed: ${error.message}`); throw error; }
Fail(e) ==
    /\ err' = e
    /\ errlog' = Append(errlog, <<"Decoding failed: ">> \o e.message)
    /\ pc' = "done"

\* the loop condition attempt <= maxRetries
LoopRuns(a) == a <= maxRetries

\* LastAttempt, one attempt late
LastAttemptLate(a) == a = maxRetries + 1

\* if (attempt === maxRetries) throw error
LastAttempt(a) == a = maxRetries

\* getPlainTextUrl(googleDocUrl): extractDocId throws on a document URL
\* without an id
ResolveUrl ==
    /\ mode = "plain" /\ pc = "start"
    /\ IF url = "badDocUrl"
       THEN /\ Fail(MkError("Error", <<"Invalid Google Doc URL format">>, 0))
            /\ UNCHANGED attempt
       ELSE /\ attempt' = 1
            /\ pc' = "fetch"
            /\ UNCHANGED <<err, errlog>>
    /\ UNCHANGED <<mode, url, fetchCalls, content, characters, bounds, rows,
                   coords, chars, grid, rowIdx, out>>

\* an attempt whose response is ok: return await response.text()
FetchOk ==
    /\ mode = "plain" /\ pc = "fetch"
    /\ \E ls \in BoundedSeq(SampleLines, MaxLines) :
          content' = JoinLines(ls)
    /\ fetchCalls' = fetchCalls + 1
    /\ pc' = "parse"
    /\ UNCHANGED <<mode, url, attempt, characters, bounds, rows, coords, chars,
                   grid, rowIdx, out, errlog, err>>

\* an attempt that throws: rethrown on the last attempt, else warn and sleep
FetchFail ==
    /\ mode = "plain" /\ pc = "fetch"
    /\ fetchCalls' = fetchCalls + 1
    /\ \E f \in FetchFailures :
          IF LastAttempt(attempt)
          THEN Fail(MkError(f.name, f.message, fetchCalls + 1))
          ELSE /\ errlog' = Append(errlog,
                      <<"Attempt ", Digits[attempt + 1], " failed, retrying...">>)
               /\ pc' = "sleep"
               /\ UNCHANGED err
    /\ UNCHANGED <<mode, url, attempt, content, characters, bounds, rows, coords,
                   chars, grid, rowIdx, out>>

\* the timer of line 24 fires: attempt++ and the loop condition; a loop that
\* ends returns undefined, and parseCharacters(undefined) throws a TypeError
Retry ==
    /\ mode = "plain" /\ pc = "sleep"
    /\ attempt' = attempt + 1
    /\ IF LoopRuns(attempt + 1)
       THEN pc' = "fetch" /\ UNCHANGED <<err, errlog>>
       ELSE Fail(MkError("TypeError",
                 <<"Cannot read properties of undefined (reading 'split')">>, 0))
    /\ UNCHANGED <<mode, url, fetchCalls, content, characters, bounds, rows,
                   coords, chars, grid, rowIdx, out>>

\* HasData without the check
HasDataUnchecked(recs) == TRUE

\* if (!characters.length) throw new Error('No character data found')
HasData(recs) == Len(recs) # 0

\* lines 55-59
Parse ==
    /\ mode \in {"plain", "line"} /\ pc = "parse"
    /\ characters' = parseCharacters(content)
    /\ IF HasData(characters')
       THEN pc' = "bounds" /\ UNCHANGED <<err, errlog>>
       ELSE Fail(MkError("Error", <<"No character data found">>, 0))
    /\ UNCHANGED <<mode, url, attempt, fetchCalls, content, bounds, rows, coords,
                   chars, grid, rowIdx, out>>

\* lines 61-69
ComputeBounds ==
    /\ mode = "plain" /\ pc = "bounds"
    /\ bounds' = computeBounds(characters)
    /\ pc' = "raster"
    /\ UNCHANGED <<mode, url, attempt, fetchCalls, content, characters, rows,
                   coords, chars, grid, rowIdx, out, errlog, err>>

\* lines 71-77
Rasterize ==
    /\ mode = "plain" /\ pc = "raster"
    /\ grid' = PlainGrid(characters, bounds)
    /\ pc' = "header"
    /\ UNCHANGED <<mode, url, attempt, fetchCalls, content, characters, bounds,
                   rows, coords, chars, rowIdx, out, errlog, err>>

\* console.log('Secret Message:')
PrintHeader ==
    /\ mode = "plain" /\ pc = "header"
    /\ out' = Append(out, HeaderLine)
    /\ rowIdx' = 1
    /\ pc' = IF Len(grid) = 0 THEN "done" ELSE "print"
    /\ UNCHANGED <<mode, url, attempt, fetchCalls, content, characters, bounds,
                   rows, coords, chars, grid, errlog, err>>

\* grid.forEach(row => console.log(row.join(''))), one row
PrintRow ==
    /\ mode = "plain" /\ pc = "print"
    /\ out' = Append(out, RowLine(grid[rowIdx]))
    /\ rowIdx' = rowIdx + 1
    /\ pc' = IF rowIdx = Len(grid) THEN "done" ELSE "print"
    /\ UNCHANGED <<mode, url, attempt, fetchCalls, content, characters, bounds,
                   rows, coords, chars, grid, errlog, err>>

---------------------------------------------------------------------------
(* renderFromUrl: extractDataFromRows *)

\* Array.from(text.matchAll(/\d+/g)).map(m => m[0]), scanning from p
RECURSIVE DigitRuns(_, _)
DigitRuns(s, p) ==
    LET a == RunEndNot(s, p, Digit)
        e == RunEnd(s, a, Digit)
    IN  IF a > Len(s) THEN <<>>
        ELSE <<SubSeq(s, a, e - 1)>> \o DigitRuns(s, e)

\* Array.from(text.matchAll(/\D+/g)): the match arrays, here by their m[0]
RECURSIVE NonDigitMatches(_, _)
NonDigitMatches(s, p) ==
    LET a == RunEnd(s, p, Digit)
        e == RunEndNot(s, a, Digit)
    IN  IF a > Len(s) THEN <<>>
        ELSE <<SubSeq(s, a, e - 1)>> \o NonDigitMatches(s, e)

\* .map(m => m.trim()): m is a match array, which has no trim method, so the
\* callback throws a TypeError on the first element; only an empty array maps
TrimThrows(matches) == Len(matches) > 0

TrimIsNotAFunction == MkError("TypeError", <<"m.trim is not a function">>, 0)

\* .filter(Boolean) of the mapped array, which is empty whenever it exists
NonDigits(matches) == <<>>

\* if (digits.length < 2) throw
TooFewDigits(digits) == Len(digits) < 2

\* nonDigits.length ? nonDigits : ' '.  A char is kept as the array of its
\* tokens; the string ' ' is the array of the one token ' ', which String()
\* turns into the same text.
CharOf(nonDigits) == IF Len(nonDigits) # 0 THEN nonDigits ELSE << <<" ">> >>

MissingCoordinates(text) ==
    MkError("DataError",
            <<"Row missing at least two coordinates: \"">> \o text \o <<"\"">>, 0)

\* the loop over the rows from row i on: the error of the first row that
\* throws, or the coords and chars pushed.  Number.parseInt of a run of digits
\* is finite (up to some 300 digits), so line 129 does not throw here.
RECURSIVE ExtractFrom(_, _, _, _)
ExtractFrom(rs, i, cs, chs) ==
    IF i > Len(rs) THEN [err |-> NoError, coords |-> cs, chars |-> chs]
    ELSE LET text == rs[i]
             digits == DigitRuns(text, 1)
             matches == NonDigitMatches(text, 1)
         IN  IF TrimThrows(matches)
             THEN [err |-> TrimIsNotAFunction, coords |-> cs, chars |-> chs]
             ELSE IF TooFewDigits(digits)
             THEN [err |-> MissingCoordinates(text), coords |-> cs, chars |-> chs]
             ELSE ExtractFrom(rs, i + 1,
                      Append(cs, <<ParseInt(digits[1]), ParseInt(digits[2])>>),
                      Append(chs, CharOf(NonDigits(matches))))

extractDataFromRows(rs) == ExtractFrom(rs, 1, <<>>, <<>>)

---------------------------------------------------------------------------
(* renderFromUrl: buildAndRenderGrid *)

RECURSIVE MaxOf(_)
MaxOf(ns) == IF Len(ns) = 1 THEN ns[1] ELSE Max2(ns[1], MaxOf(Tail(ns)))

\* Math.max(...coords.map(([x]) => x)) + 1
GridWidth(cs) == MaxOf([i \in 1..Len(cs) |-> cs[i][1]]) + 1

\* Math.max(...coords.map(([, y]) => y)) + 1
GridHeight(cs) == MaxOf([i \in 1..Len(cs) |-> cs[i][2]]) + 1

\* maxX <= 0 || maxY <= 0 (the sizes are integers here)
InvalidSize(w, h) == w <= 0 \/ h <= 0

\* String(ch) of an array of strings: its elements joined by ','
StringOf(ch) == Join(ch, <<",">>)

\* printable.length > 0 ? printable : ' '
Printable(ch) == IF Len(StringOf(ch)) > 0 THEN StringOf(ch) ELSE <<" ">>

\* x < 0 || y < 0 || y >= grid.length || x >= grid[0].length
OutOfBounds(g, x, y) == x < 0 \/ y < 0 \/ y >= Len(g) \/ x >= Len(g[1])

\* PlaceCell that moves a record outside the grid to the nearest cell
PlaceCellClamped(g, xy, ch) ==
    LET x == Min2(Max2(xy[1], 0), Len(g[1]) - 1)
        y == Min2(Max2(xy[2], 0), Len(g) - 1)
    IN  [g EXCEPT ![y + 1][x + 1] = Printable(ch)]

\* the body of the placing loop; indices from 1 here
PlaceCell(g, xy, ch) ==
    IF OutOfBounds(g, xy[1], xy[2]) THEN g
    ELSE [g EXCEPT ![xy[2] + 1][xy[1] + 1] = Printable(ch)]

RECURSIVE PlaceFrom(_, _, _, _)
PlaceFrom(g, cs, chs, i) ==
    IF i > Len(cs) THEN g
    ELSE PlaceFrom(PlaceCell(g, cs[i], chs[i]), cs, chs, i + 1)

RowGrid(cs, chs) == PlaceFrom(NewGrid(GridHeight(cs), GridWidth(cs)), cs, chs, 1)

---------------------------------------------------------------------------
(* renderFromUrl: the pipeline *)

\* what getHtml can throw
HtmlFailures ==
    { MkError("HttpError", <<"Network error requesting ", "u">>, 0),
      MkError("HttpError", <<"HTTP ", "4", "0", "4", " for ", "u">>, 0),
      MkError("HttpError", <<"Failed reading local file ", "u">>, 0) }

\* what getTableRows can throw
RowsFailures ==
    { MkError("Error", <<"Missing dependency: 'jsdom'. Install with: npm i jsdom">>, 0),
      MkError("ParseError", <<"Failed to parse HTML and select <tr> elements">>, 0) }

\* textContent of the <tr> elements of a document
SampleRows ==
    { <<"x", "c", "y">>,
      <<"0", "A", "0">>,
      <<"1", "A", "B", "1">>,
      <<"2", " ", "1">>,
      <<"1", "A">>,
      <<"7">>,
      <<>> }

\* rows.slice(1)
Slice1(s) == IF s = <<>> THEN <<>> ELSE Tail(s)

\* a rejection of renderFromUrl
Throw(e) == err' = e /\ pc' = "done"

\* lines 191-193
CheckArgument ==
    /\ mode = "row" /\ pc = "start"
    /\ IF url = "notAString"
       THEN Throw(MkError("TypeError", <<"A URL or file path string is required">>, 0))
       ELSE pc' = "getHtml" /\ UNCHANGED err
    /\ UNCHANGED <<mode, url, attempt, fetchCalls, content, characters, bounds,
                   rows, coords, chars, grid, rowIdx, out, errlog>>

\* await getHtml(urlOrPath)
GetHtml ==
    /\ mode = "row" /\ pc = "getHtml"
    /\ \/ pc' = "getRows" /\ UNCHANGED err
       \/ \E e \in HtmlFailures : Throw(e)
    /\ fetchCalls' = IF url = "http" THEN fetchCalls + 1 ELSE fetchCalls
    /\ UNCHANGED <<mode, url, attempt, content, characters, bounds, rows, coords,
                   chars, grid, rowIdx, out, errlog>>

\* await getTableRows(html)
GetTableRows ==
    /\ mode = "row" /\ pc = "getRows"
    /\ \/ /\ \E trs \in BoundedSeq(SampleRows, MaxTrs) : rows' = Slice1(trs)
          /\ pc' = "extract"
          /\ UNCHANGED err
       \/ /\ \E e \in RowsFailures : Throw(e)
          /\ UNCHANGED rows
    /\ UNCHANGED <<mode, url, attempt, fetchCalls, content, characters, bounds,
                   coords, chars, grid, rowIdx, out, errlog>>

\* const { coords, chars } = extractDataFromRows(rows)
ExtractData ==
    /\ mode = "row" /\ pc = "extract"
    /\ LET r == extractDataFromRows(rows)
       IN  /\ coords' = r.coords
           /\ chars' = r.chars
           /\ IF r.err # NoError THEN Throw(r.err)
              ELSE pc' = "build" /\ UNCHANGED err
    /\ UNCHANGED <<mode, url, attempt, fetchCalls, content, characters, bounds,
                   rows, grid, rowIdx, out, errlog>>

\* buildAndRenderGrid up to the printing loop (lines 146-179)
BuildGrid ==
    /\ mode \in {"row", "grid"} /\ pc = "build"
    /\ IF Len(coords) # Len(chars)
       THEN /\ Throw(MkError("DataError",
                       <<"Coordinates and characters length mismatch">>, 0))
            /\ UNCHANGED <<grid, rowIdx, out>>
       ELSE IF Len(coords) = 0
       THEN /\ out' = Append(out, <<>>)
            /\ pc' = "done"
            /\ UNCHANGED <<grid, rowIdx, err>>
       ELSE IF InvalidSize(GridWidth(coords), GridHeight(coords))
       THEN /\ Throw(MkError("DataError", <<"Invalid grid size computed">>, 0))
            /\ UNCHANGED <<grid, rowIdx, out>>
       ELSE /\ grid' = RowGrid(coords, chars)
            /\ rowIdx' = Len(grid')
            /\ pc' = "emit"
            /\ UNCHANGED <<out, err>>
    /\ UNCHANGED <<mode, url, attempt, fetchCalls, content, characters, bounds,
                   rows, coords, chars, errlog>>

\* for (let row = grid.length - 1; row >= 0; row -= 1) console.log(...), one row
EmitRow ==
    /\ mode \in {"row", "grid"} /\ pc = "emit"
    /\ out' = Append(out, RowLine(grid[rowIdx]))
    /\ rowIdx' = rowIdx - 1
    /\ pc' = IF rowIdx = 1 THEN "done" ELSE "emit"
    /\ UNCHANGED <<mode, url, attempt, fetchCalls, content, characters, bounds,
                   rows, coords, chars, grid, errlog, err>>

---------------------------------------------------------------------------
(* Specifications *)

\* the coordinates and the characters a call of buildAndRenderGrid on its own
\* is given: a character is an array of tokens, as CharOf makes them
DirectCoords == {<<x, y>> : x \in -1..1, y \in -1..1}

DirectChars == { <<>>, << <<"A">> >>, << <<"A", "B">> >> }

\* a call of decodeSecretMessage, of renderFromUrl, or of buildAndRenderGrid
\* on its own
Init ==
    /\ attempt = 0 /\ fetchCalls = 0
    /\ content = <<>> /\ characters = <<>> /\ bounds = NoBounds
    /\ rows = <<>>
    /\ grid = <<>> /\ rowIdx = 0
    /\ out = <<>> /\ errlog = <<>> /\ err = NoError
    /\ \/ /\ mode = "plain" /\ url \in {"docUrl", "textUrl", "badDocUrl"}
          /\ pc = "start" /\ coords = <<>> /\ chars = <<>>
       \/ /\ mode = "row" /\ url \in {"http", "file", "notAString"}
          /\ pc = "start" /\ coords = <<>> /\ chars = <<>>
       \/ /\ mode = "grid" /\ url = "none" /\ pc = "build"
          /\ \E recs \in BoundedSeq(DirectCoords \X DirectChars, MaxRecs),
                extra \in BoundedSeq(DirectChars, 1) :
                /\ coords = [i \in 1..Len(recs) |-> recs[i][1]]
                /\ chars = [i \in 1..Len(recs) |-> recs[i][2]] \o extra

Next ==
    \/ ResolveUrl \/ FetchOk \/ FetchFail \/ Retry
    \/ Parse \/ ComputeBounds \/ Rasterize \/ PrintHeader \/ PrintRow
    \/ CheckArgument \/ GetHtml \/ GetTableRows \/ ExtractData
    \/ BuildGrid \/ EmitRow

Spec == Init /\ [][Next]_vars

\* the characters of a one-line text
LineAlphabet == {"A", ",", " ", "0", "1"}

\* a call of parseCharacters(content) on a text of one line
InitLine ==
    /\ mode = "line" /\ url = "none" /\ pc = "parse"
    /\ attempt = 0 /\ fetchCalls = 0
    /\ content \in BoundedSeq(LineAlphabet, MaxLineLen)
    /\ characters = <<>> /\ bounds = NoBounds
    /\ rows = <<>> /\ coords = <<>> /\ chars = <<>>
    /\ grid = <<>> /\ rowIdx = 0
    /\ out = <<>> /\ errlog = <<>> /\ err = NoError

NextLine == Parse

SpecLine == InitLine /\ [][NextLine]_vars

\* decodeSecretMessage at the point where the first fetch attempt has returned
\* a text
InitText ==
    /\ mode = "plain" /\ url = "docUrl" /\ pc = "parse"
    /\ attempt = 1 /\ fetchCalls = 1
    /\ content \in {JoinLines(ls) : ls \in BoundedSeq(SampleLines, MaxLines)}
    /\ characters = <<>> /\ bounds = NoBounds
    /\ rows = <<>> /\ coords = <<>> /\ chars = <<>>
    /\ grid = <<>> /\ rowIdx = 0
    /\ out = <<>> /\ errlog = <<>> /\ err = NoError

NextText == Parse \/ ComputeBounds \/ Rasterize \/ PrintHeader \/ PrintRow

SpecText == InitText /\ [][NextText]_vars

---------------------------------------------------------------------------
(* Vocabulary of the properties *)

SetMax(S) == CHOOSE m \in S : \A n \in S : n <= m

SetMin(S) == CHOOSE m \in S : \A n \in S : m <= n

\* the x and the y of the records of the plain-text dialect
Xs == {characters[i].x : i \in 1..Len(characters)}

Ys == {characters[i].y : i \in 1..Len(characters)}

\* the x and the y of the records buildAndRenderGrid was given
CoordXs == {coords[i][1] : i \in 1..Len(coords)}

CoordYs == {coords[i][2] : i \in 1..Len(coords)}

\* decodeSecretMessage got a text and has run parseCharacters on it
Parsed ==
    /\ mode = "plain"
    /\ pc \notin {"start", "fetch", "sleep", "parse"}
    /\ fetchCalls > 0 /\ err.id = 0

\* decodeSecretMessage has printed its last line
PlainDone == Parsed /\ pc = "done" /\ err = NoError

\* buildAndRenderGrid, called on its own on as many characters as coordinates
\* and at least one, has returned or thrown
GridDone ==
    /\ mode = "grid" /\ pc = "done"
    /\ Len(coords) = Len(chars) /\ Len(coords) > 0

\* renderFromUrl has run extractDataFromRows on the rows of the document
Extracted ==
    /\ mode = "row" /\ pc \in {"build", "emit", "done"}
    /\ err \notin HtmlFailures \cup RowsFailures
    /\ err.message # <<"A URL or file path string is required">>

\* the number of runs of digits in a text
DigitRunCount(text) ==
    Cardinality({i \in 1..Len(text) :
        text[i] \in Digit /\ (i = 1 \/ text[i - 1] \notin Digit)})

\* text occurs in message
Contains(message, text) ==
    \E k \in 1..(Len(message) + 1) :
        /\ k + Len(text) - 1 <= Len(message)
        /\ SubSeq(message, k, k + Len(text) - 1) = text

---------------------------------------------------------------------------
(* C1 *)

\* C1: for a non-empty record set the printed grid has maxY-minY+1 rows of
\* maxX-minX+1 columns each in the plain-text dialect (after the header line),
\* and maxY+1 rows of maxX+1 columns each in the row-text dialect
\* (buildAndRenderGrid), whatever tokens the records carry.
C1_GridDimensions ==
    /\ PlainDone =>
          /\ Len(out) - 1 = SetMax(Ys) - SetMin(Ys) + 1
          /\ \A k \in 2..Len(out) : Len(out[k]) = SetMax(Xs) - SetMin(Xs) + 1
    /\ (GridDone /\ err = NoError) =>
          /\ Len(out) = SetMax(CoordYs) + 1
          /\ \A k \in 1..Len(out) : Len(out[k]) = SetMax(CoordXs) + 1

---------------------------------------------------------------------------
(* C2 *)

NoPlainCollision ==
    \A i, j \in 1..Len(characters) :
        (characters[i].x = characters[j].x /\ characters[i].y = characters[j].y)
            => i = j

NoCoordCollision == \A i, j \in 1..Len(coords) : coords[i] = coords[j] => i = j

NonNegative == \A i \in 1..Len(coords) : coords[i][1] >= 0 /\ coords[i][2] >= 0

\* C2: without collisions, record (c, x, y) is printed at column x-minX of the
\* (y-minY)-th grid row in the plain-text dialect (lowest y first), and at
\* column x of the (maxY-y)-th row in the row-text dialect (highest y first);
\* a cell no record targets is printed as one space.
C2_Placement ==
    /\ (PlainDone /\ NoPlainCollision) =>
          /\ \A i \in 1..Len(characters) :
                LET line == out[1 + (characters[i].y - SetMin(Ys)) + 1]
                    col == characters[i].x - SetMin(Xs) + 1
                IN  SubSeq(line, col, col + Len(characters[i].char) - 1)
                        = characters[i].char
          /\ \A y \in SetMin(Ys)..SetMax(Ys), x \in SetMin(Xs)..SetMax(Xs) :
                (\A i \in 1..Len(characters) :
                    characters[i].x # x \/ characters[i].y # y)
                    => out[1 + (y - SetMin(Ys)) + 1][x - SetMin(Xs) + 1] = " "
    /\ (GridDone /\ err = NoError /\ NoCoordCollision /\ NonNegative) =>
          /\ \A i \in 1..Len(coords) :
                LET line == out[(SetMax(CoordYs) - coords[i][2]) + 1]
                    col == coords[i][1] + 1
                IN  SubSeq(line, col, col + Len(Printable(chars[i])) - 1)
                        = Printable(chars[i])
          /\ \A y \in 0..SetMax(CoordYs), x \in 0..SetMax(CoordXs) :
                (\A i \in 1..Len(coords) : coords[i] # <<x, y>>)
                    => out[(SetMax(CoordYs) - y) + 1][x + 1] = " "

---------------------------------------------------------------------------
(* C3 *)

FewDigitRows == {i \in 1..Len(rows) : DigitRunCount(rows[i]) < 2}

\* C3: when a row has fewer than two runs of digits, extractDataFromRows throws
\* a DataError whose message contains the text of the (first such) row, and
\* renderFromUrl prints no grid row.
C3_ShortRowIsDataError ==
    (Extracted /\ pc = "done" /\ FewDigitRows # {}) =>
        /\ err.name = "DataError"
        /\ Contains(err.message, rows[SetMin(FewDigitRows)])
        /\ out = <<>>

---------------------------------------------------------------------------
(* C4 *)

\* C4: a text from which no record is parsed makes decodeSecretMessage throw
\* 'No character data found' before bounds are computed and before any line
\* is printed; an empty row sequence makes buildAndRenderGrid print exactly
\* one empty line and return without error.
C4_EmptyInput ==
    /\ (Parsed /\ characters = <<>>) =>
          /\ pc = "done"
          /\ err = MkError("Error", <<"No character data found">>, 0)
          /\ bounds = NoBounds /\ grid = <<>> /\ out = <<>>
    /\ (Extracted /\ pc = "done" /\ rows = <<>>) =>
          /\ err = NoError /\ out = << <<>> >> /\ grid = <<>>
    /\ (mode = "grid" /\ pc = "done" /\ coords = <<>> /\ chars = <<>>) =>
          /\ err = NoError /\ out = << <<>> >> /\ grid = <<>>

\* renderFromUrl has returned from a document without data rows
C4_Witness ==
    /\ Extracted /\ pc = "done" /\ rows = <<>>
    /\ out = << <<>> >> /\ err = NoError

---------------------------------------------------------------------------
(* C5 *)

\* some pattern matches the line, trimmed
Matching(line) == \E k \in 1..3 : MatchLine(k, Trim(line)).ok

\* the match of the first of the patterns 1, 2, 3 that matches the line
FirstInOrder(line) ==
    LET t == Trim(line)
    IN  IF MatchLine(1, t).ok THEN Record(MatchLine(1, t))
        ELSE IF MatchLine(2, t).ok THEN Record(MatchLine(2, t))
        ELSE Record(MatchLine(3, t))

MatchingLines(text) == SelectSeq(Split(text), Matching)

NoiseLines ==
    { <<>>, <<" ", "\t">>, <<"A", " ", "1">>, <<"n", "o">>,
      <<"#", " ", "x", " ", "1">> }

InsertAt(ls, pos, line) ==
    SubSeq(ls, 1, pos) \o <<line>> \o SubSeq(ls, pos + 1, Len(ls))

\* what decodeSecretMessage prints for a record sequence
Rendered(recs) ==
    LET g == PlainGrid(recs, computeBounds(recs))
    IN  <<HeaderLine>> \o [k \in 1..Len(g) |-> RowLine(g[k])]

\* C5: a line that matches no pattern gives no record and no error: the
\* records of a text with a matching line are those of its matching lines
\* alone, each from the first of the patterns 1, 2, 3 that matches it, and
\* stay the same when a non-matching or blank line is inserted anywhere; so
\* does the output.
C5_NoiseDropped ==
    /\ (Parsed /\ MatchingLines(content) # <<>>) => err = NoError
    /\ (Parsed /\ pc = "bounds") =>
          LET kept == MatchingLines(content)
          IN  /\ Len(characters) = Len(kept)
              /\ \A i \in 1..Len(kept) : characters[i] = FirstInOrder(kept[i])
              /\ characters = parseCharacters(JoinLines(kept))
              /\ \A pos \in 0..Len(Split(content)), n \in NoiseLines :
                    ~Matching(n) =>
                        parseCharacters(JoinLines(InsertAt(Split(content), pos, n)))
                            = characters
    /\ PlainDone => out = Rendered(parseCharacters(JoinLines(MatchingLines(content))))

\* decodeSecretMessage has printed the grid of a text with a non-matching,
\* non-blank line, a blank line and a line that patterns 1 and 2 both match
C5_Witness ==
    /\ PlainDone
    /\ \E i \in 1..Len(Split(content)) :
          ~Matching(Split(content)[i]) /\ Trim(Split(content)[i]) # <<>>
    /\ \E i \in 1..Len(Split(content)) : Trim(Split(content)[i]) = <<>>
    /\ \E i \in 1..Len(Split(content)) :
          /\ MatchLine(1, Trim(Split(content)[i])).ok
          /\ MatchLine(2, Trim(Split(content)[i])).ok
    /\ Len(out) > 1

---------------------------------------------------------------------------
(* C6 *)

OutsideRecords == {i \in 1..Len(coords) : coords[i][1] < 0 \/ coords[i][2] < 0}

\* the text buildAndRenderGrid leaves in cell (x, y): that of the last record
\* at (x, y), a space when there is none
ExpectedCell(x, y) ==
    LET at == {i \in 1..Len(coords) : coords[i] = <<x, y>>}
    IN  IF at = {} THEN <<" ">> ELSE Printable(chars[SetMax(at)])

\* the grid is maxY+1 by maxX+1 and holds every record inside it
InsidePainted ==
    /\ Len(grid) = SetMax(CoordYs) + 1
    /\ \A y \in 0..SetMax(CoordYs) :
          /\ Len(grid[y + 1]) = SetMax(CoordXs) + 1
          /\ \A x \in 0..SetMax(CoordXs) : grid[y + 1][x + 1] = ExpectedCell(x, y)

\* C6 as claimed: buildAndRenderGrid never throws because of a record outside
\* the grid; the record is skipped, the others are painted and the grid keeps
\* its size.
C6_NeverThrows ==
    (GridDone /\ OutsideRecords # {}) => (err = NoError /\ InsidePainted)

\* C6, amended: when some record has x >= 0 and some record has y >= 0,
\* buildAndRenderGrid does not throw, skips every record with x < 0 or y < 0,
\* paints the others and keeps the grid maxY+1 by maxX+1; when every x is
\* negative or every y is negative it throws the DataError 'Invalid grid size
\* computed' before it allocates a grid or prints a line.
C6_SkipsOutOfBounds ==
    (GridDone /\ OutsideRecords # {}) =>
        IF SetMax(CoordXs) >= 0 /\ SetMax(CoordYs) >= 0
        THEN /\ err = NoError
             /\ InsidePainted
             /\ Len(out) = Len(grid)
        ELSE /\ err = MkError("DataError", <<"Invalid grid size computed">>, 0)
             /\ grid = <<>> /\ out = <<>>

\* buildAndRenderGrid has returned from a call with a record outside the grid
\* and a visible record inside it
C6_Witness ==
    /\ GridDone /\ err = NoError
    /\ OutsideRecords # {}
    /\ \E i \in 1..Len(coords) :
          /\ i \notin OutsideRecords
          /\ Printable(chars[i]) # <<" ">>
          /\ grid[coords[i][2] + 1][coords[i][1] + 1] = Printable(chars[i])

---------------------------------------------------------------------------
(* C7 *)

\* the character the plain-text dialect leaves at (x, y)
ExpectedPlainCell(x, y) ==
    LET at == {i \in 1..Len(characters) :
                  characters[i].x = x /\ characters[i].y = y}
    IN  IF at = {} THEN <<" ">> ELSE characters[SetMax(at)].char

\* C7: in both dialects a cell shows the character of the last record, in
\* input order, with its (x, y), and a cell no record has shows a space.
C7_LastWriteWins ==
    /\ PlainDone =>
          \A y \in SetMin(Ys)..SetMax(Ys), x \in SetMin(Xs)..SetMax(Xs) :
              <<out[1 + (y - SetMin(Ys)) + 1][x - SetMin(Xs) + 1]>>
                  = ExpectedPlainCell(x, y)
    /\ (GridDone /\ err = NoError) =>
          /\ InsidePainted
          /\ Len(out) = Len(grid)
          /\ \A k \in 1..Len(out) : out[k] = RowLine(grid[Len(grid) - k + 1])

\* decodeSecretMessage has printed a grid for records of which two, with
\* different characters, have the same (x, y)
C7_Witness ==
    /\ PlainDone
    /\ \E i, j \in 1..Len(characters) :
          /\ i < j
          /\ characters[i].x = characters[j].x
          /\ characters[i].y = characters[j].y
          /\ characters[i].char # characters[j].char
    /\ Len(characters) > 2

---------------------------------------------------------------------------
(* C9 *)

WarnLine(k) == <<"Attempt ", Digits[k + 1], " failed, retrying...">>

\* C9: fetchWithRetry makes at most 3 fetch attempts: none after one that
\* succeeds, another after one that fails only if fewer than 3 were made; the
\* 3rd failure is thrown as it is, the loop never ends without a text or an
\* error, and decodeSecretMessage rethrows the error and prints no grid line.
C9_FetchWithRetry ==
    mode = "plain" =>
        /\ fetchCalls <= maxRetries
        /\ pc = "fetch" => (attempt = fetchCalls + 1 /\ attempt <= maxRetries)
        /\ pc = "sleep" => (attempt = fetchCalls /\ attempt < maxRetries)
        /\ pc \in {"fetch", "sleep"} =>
              /\ ENABLED (FetchOk \/ FetchFail \/ Retry)
              /\ err = NoError /\ out = <<>>
              /\ errlog = [k \in 1..fetchCalls |-> WarnLine(k)]
        /\ Parsed =>
              /\ attempt = fetchCalls
              /\ \A k \in 1..(fetchCalls - 1) : errlog[k] = WarnLine(k)
        /\ err.name = "TypeError" => err.message = <<"fetch failed">>
        /\ (pc = "done" /\ err.id > 0) =>
              /\ err.id = maxRetries /\ fetchCalls = maxRetries
              /\ \E f \in FetchFailures : err = MkError(f.name, f.message, maxRetries)
              /\ out = <<>> /\ content = <<>>
              /\ errlog = [k \in 1..(maxRetries - 1) |-> WarnLine(k)]
                             \o << <<"Decoding failed: ">> \o err.message >>

\* decodeSecretMessage has rejected with the error of the third attempt
C9_Witness ==
    /\ mode = "plain" /\ pc = "done"
    /\ fetchCalls = maxRetries /\ err.id = maxRetries

---------------------------------------------------------------------------
(* C10 *)

\* C10: every record of parseCharacters has a char of one character: a line
\* that pattern 3 matches is matched by pattern 1, whose record it gets, with
\* the last character of the token pattern 3 captures, so pattern 3 gives no
\* record.
C10_SingleCharacter ==
    (mode = "line" /\ pc # "parse") =>
        LET t == Trim(content)
            m1 == MatchLine(1, t)
            m2 == MatchLine(2, t)
            m3 == MatchLine(3, t)
        IN  /\ \A i \in 1..Len(characters) : Len(characters[i].char) = 1
            /\ m3.ok =>
                  /\ m1.ok
                  /\ characters = <<Record(m1)>>
                  /\ m1.char = <<m3.char[Len(m3.char)]>>
                  /\ m1.x = m3.x /\ m1.y = m3.y
            /\ characters # <<>> =>
                  characters \in {<<Record(m1)>>, <<Record(m2)>>}

\* parseCharacters has returned the record of a line whose token, as pattern 3
\* captures it, has several characters
C10_Witness ==
    /\ mode = "line" /\ pc = "bounds"
    /\ Len(MatchLine(3, Trim(content)).char) > 1
    /\ Len(characters) = 1 /\ Len(characters[1].char) = 1

====
